---- MODULE Spec2Model ----
(***************************************************************************)
(* Model of the pharmacy directory backend: the Pharmacie entity           *)
(* (backend/models.py), the reconciliation routine                         *)
(* PharmacieScraper.save_pharmacies_to_db, the record source providers and *)
(* the orchestrator run_full_scraping (backend/scraper.py), and the HTTP   *)
(* handlers update_pharmacie and trigger_scraping (backend/app.py).        *)
(*                                                                         *)
(* A Python dict is a record over Keys in which a key that is not in the   *)
(* dict holds Absent; Python's None is NoneVal.  The table is the sequence *)
(* of its rows in rowid order.  datetime.utcnow() is a read of a clock     *)
(* that never runs backwards.                                              *)
(***************************************************************************)
EXTENDS Integers, Sequences, FiniteSets, TLC

VARIABLES
    store,      \* the committed rows of table pharmacies, in rowid order
    now,        \* the wall clock read by datetime.utcnow
    step,       \* what the clock advances from one read to the next: 0 on a
                \* clock coarser than the reads of one request, else 1
    nruns,      \* number of requests served so far
    pre,        \* the committed rows before the last request
    lastOp,     \* "none", "save" or "update": the last request
    lastBatch,  \* the candidates handed to the last save_pharmacies_to_db
    lastRet,    \* what the last save_pharmacies_to_db returned
    lastErr,    \* whether the last request raised and was rolled back
    lastFault,  \* whether the storage failed at the last request's commit
    rep,        \* the last save repeats the batch of the save just before it
    lastId,     \* the id given to the last update_pharmacie
    lastData,   \* the body given to the last update_pharmacie
    rpc,        \* where run_full_scraping stands: "idle", "collecting",
                \* "reconciling", "done" or "failed"
    found,      \* the list pharmacies of scrape_pharmacies_abidjan
    invoked,    \* the providers called so far, in order
    yielded,    \* for each provider called, how many candidates it returned
    broke,      \* the providers in which an exception was raised
    result,     \* the summary run_full_scraping returns
    saveRaised, \* whether the run's save raised and was rolled back
    geoLog,     \* the calls of _geocode_address so far, in order: the
                \* address, what the geocoder did and what was returned
    reconciled, \* how many times a run has called save_pharmacies_to_db
    flag,       \* app.scraping_in_progress (False while the attribute is unset)
    tpc,        \* where each POST /api/scrape stands: "new", "entered",
                \* "running" or "responded"
    tforce,     \* the force of each request's body
    tstatus,    \* the HTTP status each request was answered with, 0 before
    terror,     \* the error of each request's answer, "" for none
    text,       \* the text handed to _extract_phone, a sequence of characters
    extracted,  \* whether _extract_phone has returned
    phone,      \* what _extract_phone returned
    offered,    \* the names of the candidates handed to the reconcile runs
    accepted    \* the names of the candidates of the runs that committed

histVars == <<nruns, lastOp, lastBatch, lastRet, lastErr, lastFault, rep,
              lastId, lastData>>
runVars == <<rpc, found, invoked, yielded, broke, result, saveRaised, geoLog,
            reconciled>>
trigVars == <<flag, tpc, tforce, tstatus, terror>>
phoneVars == <<text, extracted, phone>>
nameVars == <<offered, accepted>>
vars == <<store, now, step, pre, histVars, runVars, trigVars, phoneVars,
          nameVars>>

\* ------------------------------------------------------------- bounds
MaxBatch == 2
MaxRuns == 2
MaxRequests == 2

\* ------------------------------------------------------------- values
NoneVal == "None"
Absent == "<absent>"
Unset == 0

Keys == {"nom", "adresse", "latitude", "longitude", "telephone", "email",
         "horaires"}
MergeKeys == Keys \ {"nom"}

EmptyDict == [k \in Keys |-> Absent]

Has(data, k) == data[k] # Absent

\* dict.get(k): None for a key the dict does not hold
Get(data, k) == IF Has(data, k) THEN data[k] ELSE NoneVal

\* ------------------------------------------------------------- entity
\* A constructor call that leaves out horaires.
create_without_horaires(data) ==
    [id |-> Unset,
     nom |-> Get(data, "nom"),
     adresse |-> Get(data, "adresse"),
     latitude |-> Get(data, "latitude"),
     longitude |-> Get(data, "longitude"),
     telephone |-> Get(data, "telephone"),
     email |-> Get(data, "email"),
     horaires |-> NoneVal,
     date_creation |-> Unset,
     date_maj |-> Unset]

\* Pharmacie(...) as built by create_from_dict: no id and no timestamps
\* until the INSERT is flushed.
create_from_dict(data) ==
    [id |-> Unset,
     nom |-> Get(data, "nom"),
     adresse |-> Get(data, "adresse"),
     latitude |-> Get(data, "latitude"),
     longitude |-> Get(data, "longitude"),
     telephone |-> Get(data, "telephone"),
     email |-> Get(data, "email"),
     horaires |-> Get(data, "horaires"),
     date_creation |-> Unset,
     date_maj |-> Unset]

\* A merge that writes every column, None where the dict has no key.
update_overwrites_all(e, data, t) ==
    [e EXCEPT !.nom = IF Has(data, "nom") THEN data.nom ELSE @,
              !.adresse = IF Has(data, "adresse") THEN data.adresse ELSE @,
              !.latitude = Get(data, "latitude"),
              !.longitude = Get(data, "longitude"),
              !.telephone = Get(data, "telephone"),
              !.email = Get(data, "email"),
              !.horaires = Get(data, "horaires"),
              !.date_maj = t]

\* A merge that only fills the columns that hold None.
update_fills_only_null(e, data, t) ==
    [k \in DOMAIN e |->
        IF k = "date_maj" THEN t
        ELSE IF k \in Keys /\ Has(data, k) /\ e[k] = NoneVal THEN data[k]
        ELSE e[k]]

\* A merge that leaves date_maj alone.
update_keeps_date_maj(e, data, t) ==
    [e EXCEPT !.nom = IF Has(data, "nom") THEN data.nom ELSE @,
              !.adresse = IF Has(data, "adresse") THEN data.adresse ELSE @,
              !.latitude = IF Has(data, "latitude") THEN data.latitude ELSE @,
              !.longitude = IF Has(data, "longitude") THEN data.longitude ELSE @,
              !.telephone = IF Has(data, "telephone") THEN data.telephone ELSE @,
              !.email = IF Has(data, "email") THEN data.email ELSE @,
              !.horaires = IF Has(data, "horaires") THEN data.horaires ELSE @]

\* A merge that replaces the row by a new one built from the dict.
update_replaces_row(e, data, t) ==
    [create_from_dict(data) EXCEPT !.date_maj = t]

\* Pharmacie.update_from_dict, t the value of datetime.utcnow()
update_from_dict(e, data, t) ==
    [e EXCEPT !.nom = IF Has(data, "nom") THEN data.nom ELSE @,
              !.adresse = IF Has(data, "adresse") THEN data.adresse ELSE @,
              !.latitude = IF Has(data, "latitude") THEN data.latitude ELSE @,
              !.longitude = IF Has(data, "longitude") THEN data.longitude ELSE @,
              !.telephone = IF Has(data, "telephone") THEN data.telephone ELSE @,
              !.email = IF Has(data, "email") THEN data.email ELSE @,
              !.horaires = IF Has(data, "horaires") THEN data.horaires ELSE @,
              !.date_maj = t]

\* ------------------------------------------------------------ session
\* The unit of work of one request: the rows as the open transaction sees
\* them, the clock, the counter saved_count, whether a statement has been
\* sent to the database, and whether an exception has been raised.
Begin(rows, clk) ==
    [rows |-> rows, clk |-> clk, count |-> 0, queried |-> FALSE,
     raised |-> FALSE, faulted |-> FALSE]

Raise(w) == [w EXCEPT !.raised = TRUE]

MinOf(S) == CHOOSE i \in S : \A j \in S : i <= j

\* nullable=False on nom and adresse: the flush raises IntegrityError
NotNullOk(rows) ==
    \A i \in 1..Len(rows) : rows[i].nom # NoneVal /\ rows[i].adresse # NoneVal

\* INTEGER PRIMARY KEY: one more than the largest rowid
NextId(rows) ==
    IF \A i \in 1..Len(rows) : rows[i].id = Unset THEN 1
    ELSE 1 + (CHOOSE m \in {rows[i].id : i \in 1..Len(rows)} :
                 \A i \in 1..Len(rows) : rows[i].id <= m)

\* The INSERT of a pending row: its id, then the column defaults in column
\* order, date_creation before date_maj, each a call of datetime.utcnow;
\* tick is what the clock advances from one read to the next.
InsertDefaults(e, rows, clk, tick) ==
    [e EXCEPT !.id = NextId(rows),
              !.date_creation = clk,
              !.date_maj = clk + tick]

\* session.flush(): the pending INSERT (at most one: every query flushes)
\* and the pending UPDATEs go to the database, inside the transaction.
Flush(w, tick) ==
    IF w.raised THEN w
    ELSE IF ~NotNullOk(w.rows) THEN Raise(w)
    ELSE IF Len(w.rows) > 0 /\ w.rows[Len(w.rows)].id = Unset
         THEN [w EXCEPT !.rows[Len(w.rows)] =
                            InsertDefaults(@, w.rows, w.clk, tick),
                        !.clk = @ + 2 * tick]
         ELSE w

\* A lookup that never matches.
FirstNeverFound(rows, nom) == 0

\* Pharmacie.query.filter_by(nom=...).first(): the position of the first
\* row of that name, 0 for none (nom = None compiles to IS NULL, and no row
\* has a NULL nom).
FirstByNom(rows, nom) ==
    LET S == {i \in 1..Len(rows) : rows[i].nom = nom}
    IN IF nom = NoneVal \/ S = {} THEN 0 ELSE MinOf(S)

\* Pharmacie.query.get(id): the position of the row of that id, 0 for none
ById(rows, id) ==
    LET S == {i \in 1..Len(rows) : rows[i].id = id}
    IN IF S = {} THEN 0 ELSE MinOf(S)

\* saved_count counting only the rows created.
CountCreated(count, existing) == IF existing THEN count ELSE count + 1

\* saved_count += 1, on the update branch (existing) and the create branch
\* alike
Counted(count, existing) == count + 1

\* One pass of the loop of save_pharmacies_to_db over candidate data.
SaveStep(w, data, tick) ==
    IF w.raised THEN w
    ELSE IF ~Has(data, "nom") THEN Raise(w)           \* KeyError
    ELSE LET f == Flush(w, tick)                      \* autoflush of the query
         IN IF f.raised THEN f
            ELSE LET i == FirstByNom(f.rows, data.nom)
                 IN IF i # 0
                    THEN [f EXCEPT !.rows[i] = update_from_dict(@, data, f.clk),
                                   !.clk = @ + tick,
                                   !.queried = TRUE,
                                   !.count = Counted(@, TRUE)]
                    ELSE [f EXCEPT !.rows = Append(@, create_from_dict(data)),
                                   !.queried = TRUE,
                                   !.count = Counted(@, FALSE)]

RECURSIVE SaveLoop(_, _, _)
SaveLoop(w, batch, tick) ==
    IF batch = <<>> THEN w
    ELSE SaveLoop(SaveStep(w, Head(batch), tick), Tail(batch), tick)

\* db.session.commit(): the flush, then the commit itself, which raises
\* when the storage fails; a session that sent no statement has no
\* transaction to commit.
Commit(w, tick, fault) ==
    LET f == Flush(w, tick)
    IN IF f.raised THEN f
       ELSE IF fault /\ f.queried
            THEN [f EXCEPT !.raised = TRUE, !.faulted = TRUE]
            ELSE f

\* A rollback that keeps what the transaction had flushed.
RollbackKeepsFlushed(rows, w) ==
    [w EXCEPT !.rows = SelectSeq(w.rows, LAMBDA e : e.id # Unset),
              !.count = 0, !.raised = TRUE]

\* except Exception: db.session.rollback(); saved_count = 0
Rollback(rows, w) ==
    [w EXCEPT !.rows = rows, !.count = 0, !.raised = TRUE]

\* PharmacieScraper.save_pharmacies_to_db on the committed rows
save_pharmacies_to_db(rows, clk, batch, tick, fault) ==
    LET w == Commit(SaveLoop(Begin(rows, clk), batch, tick), tick, fault)
    IN IF w.raised THEN Rollback(rows, w) ELSE w

\* update_pharmacie(pharmacie_id): get_or_404, the 400 for an empty body,
\* update_from_dict, commit; any exception rolls back.
update_pharmacie(rows, clk, id, data, tick, fault) ==
    LET i == ById(rows, id)
        w == [Begin(rows, clk) EXCEPT !.queried = TRUE]
    IN IF i = 0 THEN Rollback(rows, w)
       ELSE IF data = EmptyDict THEN w
       ELSE LET u == [w EXCEPT !.rows[i] = update_from_dict(@, data, w.clk),
                               !.clk = @ + tick,
                               !.count = 1]
                c == Commit(u, tick, fault)
            IN IF c.raised THEN Rollback(rows, c) ELSE c

\* ----------------------------------------------------------- geocoder
\* What self.geolocator.geocode does with one address: a location, None,
\* or one of the exceptions.
GeoOutcomes ==
    {"location", "none", "GeocoderTimedOut", "GeocoderUnavailable",
     "Exception"}

\* (location.latitude, location.longitude)
Coords == <<"5.3", "-4.0">>

\* the None of _geocode_address, an empty tuple here
NoCoords == <<>>

\* an exception that leaves _geocode_address instead of a return value
Escaped == <<"raise">>

\* A geocoder adapter whose last except is missing: an exception other
\* than the two geopy ones leaves the method.
geocode_unexpected_escapes(outcome) ==
    IF outcome = "location" THEN Coords
    ELSE IF outcome = "Exception" THEN Escaped
    ELSE NoCoords

\* PharmacieScraper._geocode_address: the pair for a location, None for no
\* location, None from except (GeocoderTimedOut, GeocoderUnavailable) and
\* None from except Exception
_geocode_address(outcome) ==
    IF outcome = "location" THEN Coords
    ELSE IF outcome = "none" THEN NoCoords
    ELSE IF outcome \in {"GeocoderTimedOut", "GeocoderUnavailable"} THEN NoCoords
    ELSE NoCoords

\* coords = self._geocode_address(data['adresse']); if coords: ...
Geocoded(data, outcome) ==
    IF _geocode_address(outcome) \notin {NoCoords, Escaped}
    THEN [data EXCEPT !.latitude = _geocode_address(outcome)[1],
                      !.longitude = _geocode_address(outcome)[2]]
    ELSE data

\* one call of _geocode_address as the log keeps it
GeoCall(data, outcome) ==
    [adresse |-> data.adresse, outcome |-> outcome,
     coords |-> _geocode_address(outcome)]

\* ---------------------------------------------------- field extractors
\* \\d and \\s of the module re, on the characters the texts are made of
Digits == {"0", "1", "2", "3", "4", "5", "6", "7", "8", "9"}
Whitespace == {" ", "\t"}

\* patterns of _extract_phone, in order: the literal each starts with, then
\* \\s?\\d{2}\\s?\\d{3}\\s?\\d{3} (the third has \\d{2} first, without \\s?)
patterns ==
    << [lit |-> <<"+", "2", "2", "5">>, groups |-> <<2, 3, 3>>, lead |-> TRUE],
       [lit |-> <<"2", "2", "5">>, groups |-> <<2, 3, 3>>, lead |-> TRUE],
       [lit |-> <<>>, groups |-> <<2, 3, 3>>, lead |-> FALSE] >>

\* the None of _extract_phone
NoPhone == <<>>

\* lit stands in t at position p
LitAt(t, p, lit) ==
    /\ p + Len(lit) - 1 <= Len(t)
    /\ \A k \in 1..Len(lit) : t[p + k - 1] = lit[k]

\* (\\s?\\d{n})* from position p of t, \\s? where opt says so: the position
\* after the match, 0 for no match
RECURSIVE MatchGroups(_, _, _, _)
MatchGroups(t, p, groups, opt) ==
    IF groups = <<>> THEN p
    ELSE LET q == IF opt /\ p <= Len(t) /\ t[p] \in Whitespace
                  THEN p + 1 ELSE p
             n == Head(groups)
         IN IF q + n - 1 <= Len(t) /\ \A k \in q..(q + n - 1) : t[k] \in Digits
            THEN MatchGroups(t, q + n, Tail(groups), TRUE)
            ELSE 0

\* the pattern matched at position p of t: the position after the match, 0
\* for no match
MatchEnd(t, p, pattern) ==
    IF LitAt(t, p, pattern.lit)
    THEN MatchGroups(t, p + Len(pattern.lit), pattern.groups, pattern.lead)
    ELSE 0

\* re.search(pattern, text).group(1): the leftmost match, NoPhone for None
Search(t, pattern) ==
    LET S == {p \in 1..Len(t) : MatchEnd(t, p, pattern) # 0}
    IN IF S = {} THEN NoPhone
       ELSE SubSeq(t, MinOf(S), MatchEnd(t, MinOf(S), pattern) - 1)

\* .replace(' ', '')
WithoutSpaces(m) == SelectSeq(m, LAMBDA c : c # " ")

\* PharmacieScraper._extract_phone: the first pattern that matches
_extract_phone(t) ==
    LET hit == {i \in 1..Len(patterns) : Search(t, patterns[i]) # NoPhone}
    IN IF hit = {} THEN NoPhone
       ELSE WithoutSpaces(Search(t, patterns[MinOf(hit)]))

\* ---------------------------------------------------------- providers
GardeData ==
    << [EmptyDict EXCEPT !.nom = "Pharmacie de Garde Cocody",
                         !.adresse = "Cocody, Abidjan, Cote d'Ivoire",
                         !.telephone = "+225 27 22 12 34",
                         !.email = "garde.cocody@pharma.ci"],
       [EmptyDict EXCEPT !.nom = "Pharmacie de Garde Plateau",
                         !.adresse = "Plateau, Abidjan, Cote d'Ivoire",
                         !.telephone = "+225 27 22 56 78",
                         !.email = "garde.plateau@pharma.ci"] >>

AnnuaireData ==
    << [EmptyDict EXCEPT !.nom = "Pharmacie Centrale",
                         !.adresse = "Boulevard Roume, Plateau, Abidjan",
                         !.telephone = "+225 27 22 90 12",
                         !.email = "contact@pharmacie-centrale.ci"],
       [EmptyDict EXCEPT !.nom = "Pharmacie Saint-Jean",
                         !.adresse = "Rue des Jardins, Cocody, Abidjan",
                         !.telephone = "+225 27 22 34 56",
                         !.email = "info@pharmacie-saintjean.ci"],
       [EmptyDict EXCEPT !.nom = "Pharmacie du Marche",
                         !.adresse = "Marche de Treichville, Abidjan",
                         !.telephone = "+225 27 22 78 90",
                         !.email = NoneVal] >>

PopulairesData ==
    << [EmptyDict EXCEPT !.nom = "Pharmacie de l'Aeroport",
                         !.adresse = "Aeroport Felix Houphouet-Boigny, Abidjan",
                         !.telephone = "+225 27 22 11 22",
                         !.email = "aeroport@pharma.ci",
                         !.horaires = "24h/24"],
       [EmptyDict EXCEPT !.nom = "Pharmacie de l'Universite",
                         !.adresse = "Universite Felix Houphouet-Boigny, Cocody, Abidjan",
                         !.telephone = "+225 27 22 33 44",
                         !.email = "universite@pharma.ci",
                         !.horaires = "8h-18h"],
       [EmptyDict EXCEPT !.nom = "Pharmacie du Port",
                         !.adresse = "Port Autonome d'Abidjan",
                         !.telephone = "+225 27 22 55 66",
                         !.email = "port@pharma.ci",
                         !.horaires = "7h-19h"] >>

Providers == <<"garde", "annuaire", "populaires">>

\* the first n candidates of data, each with the coordinates found for it
RECURSIVE GeocodedFirst(_, _, _)
GeocodedFirst(data, geo, n) ==
    IF n = 0 THEN <<>>
    ELSE Append(GeocodedFirst(data, geo, n - 1), Geocoded(data[n], geo[n]))

\* the calls of _geocode_address for the first n candidates of data
RECURSIVE CallsFirst(_, _, _)
CallsFirst(data, geo, n) ==
    IF n = 0 THEN <<>>
    ELSE Append(CallsFirst(data, geo, n - 1), GeoCall(data[n], geo[n]))

\* the passes of a provider's loop in which an exception leaves
\* _geocode_address
EscapesAt(data, geo) ==
    {i \in 1..Len(data) : _geocode_address(geo[i]) = Escaped}

\* The number of passes the loop of a provider completes: an exception is
\* raised after failAt passes (never when failAt > Len(data)), and an
\* exception that leaves _geocode_address ends the loop in its pass.
Passes(data, geo, failAt) ==
    LET lim == IF failAt < Len(data) THEN failAt ELSE Len(data)
        esc == {i \in EscapesAt(data, geo) : i <= lim}
    IN IF esc = {} THEN lim ELSE MinOf(esc) - 1

\* A provider that calls the geocoder a second time for each address it
\* found no coordinates for.
CollectedWithRetry(data, geo, failAt) ==
    LET n == Passes(data, geo, failAt)
        first == CallsFirst(data, geo, n)
    IN [out |-> GeocodedFirst(data, geo, n),
        raised |-> failAt <= Len(data),
        calls |-> first \o SelectSeq(first, LAMBDA c : c.coords = NoCoords)]

\* The loop of a provider over its sample data, geo[i] what the geocoder
\* does with the i-th address: the candidates appended before an exception
\* left the loop, whether one did, and the geocoder calls made.
Collected(data, geo, failAt) ==
    LET n == Passes(data, geo, failAt)
        escaped == \E i \in EscapesAt(data, geo) : i = n + 1
    IN [out |-> GeocodedFirst(data, geo, n),
        raised |-> failAt <= Len(data) \/ escaped,
        calls |-> CallsFirst(data, geo, IF escaped THEN n + 1 ELSE n)]

\* _scrape_pharmacies_garde: except Exception logs, and the list built so
\* far is returned
_scrape_pharmacies_garde(geo, failAt) ==
    [Collected(GardeData, geo, failAt) EXCEPT !.raised = FALSE]

\* _scrape_annuaire_pharmacies: the same around its own sample data
_scrape_annuaire_pharmacies(geo, failAt) ==
    [Collected(AnnuaireData, geo, failAt) EXCEPT !.raised = FALSE]

\* _get_pharmacies_populaires: no try; an exception leaves the method
_get_pharmacies_populaires(geo, failAt) ==
    Collected(PopulairesData, geo, failAt)

\* the summaries of run_full_scraping, and none before it returns
NoResult == [kind |-> "none", success |-> FALSE, pharmacies_found |-> 0,
             pharmacies_saved |-> 0]
SuccessResult(nfound, nsaved) ==
    [kind |-> "summary", success |-> TRUE, pharmacies_found |-> nfound,
     pharmacies_saved |-> nsaved]
ErrorResult ==
    [kind |-> "error", success |-> FALSE, pharmacies_found |-> 0,
     pharmacies_saved |-> 0]

\* scrape_pharmacies_abidjan: the three providers in order, env what the
\* geocoder does with each address and where each provider breaks
scrape_pharmacies_abidjan(env) ==
    LET g == _scrape_pharmacies_garde(env.geoG, env.failG)
        a == _scrape_annuaire_pharmacies(env.geoA, env.failA)
        p == _get_pharmacies_populaires(env.geoP, env.failP)
    IN [out |-> g.out \o a.out \o p.out, raised |-> p.raised,
        calls |-> g.calls \o a.calls \o p.calls]

\* run_full_scraping on the committed rows: the summary, or the error
\* summary of its except
run_full_scraping(rows, clk, dt, env) ==
    LET c == scrape_pharmacies_abidjan(env)
    IN IF c.raised
       THEN [rows |-> rows, clk |-> clk, result |-> ErrorResult,
             saveRaised |-> FALSE, calls |-> c.calls, saves |-> 0]
       ELSE LET r == save_pharmacies_to_db(rows, clk, c.out, dt, env.fault)
            IN [rows |-> r.rows, clk |-> r.clk,
                result |-> SuccessResult(Len(c.out), r.count),
                saveRaised |-> r.raised, calls |-> c.calls, saves |-> 1]

\* ------------------------------------------------------------- inputs
Requests == 1..MaxRequests

\* the field error of the answers of trigger_scraping
NoError == ""
DejaEnCours == "Scraping deja en cours"
DonneesExistantes == "Donnees existantes"
StrOfException == "str(e)"

AllOf(data, outcome) == [i \in 1..Len(data) |-> outcome]

\* a run in which every address is located and nothing fails
Located ==
    [geoG |-> AllOf(GardeData, "location"), failG |-> Len(GardeData) + 1,
     geoA |-> AllOf(AnnuaireData, "location"), failA |-> Len(AnnuaireData) + 1,
     geoP |-> AllOf(PopulairesData, "location"),
     failP |-> Len(PopulairesData) + 1,
     fault |-> FALSE]

\* the runs of POST /api/scrape: all located, the commit failing, the
\* third provider raising at once
RunEnvs ==
    {Located,
     [Located EXCEPT !.fault = TRUE],
     [Located EXCEPT !.failP = 0]}

cPhone == [EmptyDict EXCEPT !.nom = "A", !.telephone = "1"]
cAddr == [EmptyDict EXCEPT !.nom = "A", !.adresse = "X"]
cMarche == [EmptyDict EXCEPT !.nom = "B", !.adresse = "Y", !.telephone = "2",
                             !.email = NoneVal, !.latitude = "5.3",
                             !.longitude = "-4.0", !.horaires = "24h/24"]
cNoNom == [EmptyDict EXCEPT !.adresse = "X"]
cOld == [EmptyDict EXCEPT !.nom = "A", !.adresse = "Z", !.telephone = "9",
                          !.email = "a@pharma.ci"]

Candidates == {cPhone, cAddr, cMarche}

\* Batches whose candidate has no key nom: the lookup raises KeyError, at
\* once or after an earlier candidate's row is pending.
Malformed == {<<cNoNom>>, <<cMarche, cNoNom>>, <<cMarche, cAddr, cNoNom>>}

\* Every batch of up to MaxBatch of the candidates, the malformed ones, and
\* the batch of one full record under the name of cPhone and cAddr.
Batches ==
    UNION {[1..n -> Candidates] : n \in 0..MaxBatch}
      \cup {b \in Malformed : Len(b) <= MaxBatch}
      \cup {<<cOld>>}

uMove == [EmptyDict EXCEPT !.adresse = "Z", !.telephone = "9"]
uNoAddr == [EmptyDict EXCEPT !.adresse = NoneVal, !.email = "a@pharma.ci"]
uRename == [EmptyDict EXCEPT !.nom = "B", !.horaires = "8h-18h"]

Bodies == {EmptyDict, uMove, uNoAddr, uRename}

\* the texts handed to _extract_phone: a number, or none, after a prefix,
\* inside a sentence or alone
CallUsAt == <<"C", "a", "l", "l", " ", "u", "s", " ", "a", "t", " ">>
Today == <<" ", "t", "o", "d", "a", "y">>
Plus225 == <<"+", "2", "2", "5">>
Spaced2222 == <<"2", "7", " ", "2", "2", " ", "1", "2", " ", "3", "4">>
Spaced233 == <<"0", "7", " ", "1", "2", "3", " ", "4", "5", "6">>
Unspaced == <<"0", "7", "1", "2", "3", "4", "5", "6">>
SevenDigits == <<"0", "7", "1", "2", "3", "4", "5">>
NoDigits == <<"a", " ", "t", "o", "u", "t", "e", " ", "h", "e", "u", "r", "e">>

Leads == {<<>>, Plus225, Plus225 \o <<" ">>, Tail(Plus225) \o <<" ">>}
Numbers == {Spaced2222, Spaced233, Unspaced, SevenDigits, NoDigits, <<>>}
Texts ==
    {before \o lead \o number \o after :
        before \in {<<>>, CallUsAt}, lead \in Leads, number \in Numbers,
        after \in {<<>>, Today}}

\* -------------------------------------------------------------- actions
\* The table is empty, as db.create_all() leaves it.
InitProgram ==
    /\ store = <<>>
    /\ now = 1
    /\ step \in 0..1
    /\ nruns = 0
    /\ pre = <<>>
    /\ lastOp = "none"
    /\ lastBatch = <<>>
    /\ lastRet = 0
    /\ lastErr = FALSE
    /\ lastFault = FALSE
    /\ rep = FALSE
    /\ lastId = 0
    /\ lastData = EmptyDict
    /\ rpc = "idle"
    /\ found = <<>>
    /\ invoked = <<>>
    /\ yielded = <<>>
    /\ broke = {}
    /\ result = NoResult
    /\ saveRaised = FALSE
    /\ geoLog = <<>>
    /\ reconciled = 0
    /\ flag = FALSE
    /\ tpc = [r \in Requests |-> "new"]
    /\ tforce = [r \in Requests |-> FALSE]
    /\ tstatus = [r \in Requests |-> 0]
    /\ terror = [r \in Requests |-> NoError]

Init ==
    /\ InitProgram
    /\ offered = {}
    /\ accepted = {}
    /\ text = <<>>
    /\ extracted = FALSE
    /\ phone = NoPhone

\* One call of save_pharmacies_to_db(batch)
Save(batch, fault) ==
    /\ nruns < MaxRuns
    /\ LET r == save_pharmacies_to_db(store, now, batch, step, fault)
       IN /\ store' = r.rows
          /\ now' = r.clk + 1
          /\ lastRet' = r.count
          /\ lastErr' = r.raised
          /\ lastFault' = r.faulted
    /\ nruns' = nruns + 1
    /\ pre' = store
    /\ lastOp' = "save"
    /\ lastBatch' = batch
    /\ rep' = (lastOp = "save" /\ lastBatch = batch /\ ~lastFault)
    /\ UNCHANGED <<step, lastId, lastData, runVars, trigVars>>
    /\ UNCHANGED phoneVars

\* One PUT /api/pharmacies/<id>
UpdatePharmacie(id, data, fault) ==
    /\ nruns < MaxRuns
    /\ LET r == update_pharmacie(store, now, id, data, step, fault)
       IN /\ store' = r.rows
          /\ now' = r.clk + 1
          /\ lastRet' = r.count
          /\ lastErr' = r.raised
          /\ lastFault' = r.faulted
    /\ nruns' = nruns + 1
    /\ pre' = store
    /\ lastOp' = "update"
    /\ lastId' = id
    /\ lastData' = data
    /\ rep' = FALSE
    /\ UNCHANGED <<step, lastBatch, runVars, trigVars>>
    /\ UNCHANGED <<phoneVars, nameVars>>

Next ==
    \/ \E batch \in Batches, fault \in BOOLEAN :
          Save(batch, fault) /\ UNCHANGED nameVars
    \/ \E id \in 1..(Len(store) + 1), data \in Bodies, fault \in BOOLEAN :
          UpdatePharmacie(id, data, fault)

Spec == Init /\ [][Next]_vars

\* -------------------------------------------------- reconcile runs
\* the names the candidates of a batch carry
NamesOf(batch) ==
    {batch[j].nom : j \in {h \in 1..Len(batch) : Has(batch[h], "nom")}}

\* One call of save_pharmacies_to_db(batch), with the record of the names
\* it was given and of the names of the batches that were committed.
Reconcile(batch, fault) ==
    /\ Save(batch, fault)
    /\ offered' = offered \cup NamesOf(batch)
    /\ accepted' = IF lastErr' THEN accepted ELSE accepted \cup NamesOf(batch)

NextReconcile ==
    \E batch \in Batches, fault \in BOOLEAN : Reconcile(batch, fault)

\* reconcile runs only, from the empty table
SpecReconcile == Init /\ [][NextReconcile]_vars

\* ------------------------------------------------- run_full_scraping
\* what the geocoder does with the addresses of one provider: it fails at
\* no more than one of them, or does the same with all of them
GeoFor(data) ==
    {geo \in [1..Len(data) -> GeoOutcomes] :
        Cardinality({i \in 1..Len(data) : geo[i] # "location"}) <= 1}
      \cup {AllOf(data, outcome) : outcome \in GeoOutcomes}
\* where a provider's loop breaks: at once, after its first pass, or never
FailPoints(data) == {0, 1, Len(data) + 1}

\* run_full_scraping is entered: start_time, then scrape_pharmacies_abidjan
StartRun ==
    /\ rpc = "idle"
    /\ rpc' = "collecting"
    /\ UNCHANGED <<store, now, step, pre, histVars, found, invoked, yielded,
                   broke, result, saveRaised, geoLog, reconciled, trigVars>>
    /\ UNCHANGED <<phoneVars, nameVars>>

\* pharmacies.extend(self._scrape_pharmacies_garde())
ScrapeGarde(geo, failAt) ==
    /\ rpc = "collecting" /\ invoked = <<>>
    /\ LET r == _scrape_pharmacies_garde(geo, failAt)
       IN /\ found' = found \o r.out
          /\ yielded' = Append(yielded, Len(r.out))
          /\ geoLog' = geoLog \o r.calls
    /\ invoked' = Append(invoked, "garde")
    /\ broke' = IF failAt <= Len(GardeData) THEN broke \cup {"garde"} ELSE broke
    /\ UNCHANGED <<store, now, step, pre, histVars, rpc, result, saveRaised,
                   reconciled, trigVars>>
    /\ UNCHANGED <<phoneVars, nameVars>>

\* pharmacies.extend(self._scrape_annuaire_pharmacies())
ScrapeAnnuaire(geo, failAt) ==
    /\ rpc = "collecting" /\ invoked = <<"garde">>
    /\ LET r == _scrape_annuaire_pharmacies(geo, failAt)
       IN /\ found' = found \o r.out
          /\ yielded' = Append(yielded, Len(r.out))
          /\ geoLog' = geoLog \o r.calls
    /\ invoked' = Append(invoked, "annuaire")
    /\ broke' = IF failAt <= Len(AnnuaireData)
                THEN broke \cup {"annuaire"} ELSE broke
    /\ UNCHANGED <<store, now, step, pre, histVars, rpc, result, saveRaised,
                   reconciled, trigVars>>
    /\ UNCHANGED <<phoneVars, nameVars>>

\* pharmacies.extend(self._get_pharmacies_populaires()); its exception
\* passes through scrape_pharmacies_abidjan to the except of
\* run_full_scraping, which returns the error summary.
GetPopulaires(geo, failAt) ==
    /\ rpc = "collecting" /\ invoked = <<"garde", "annuaire">>
    /\ LET r == _get_pharmacies_populaires(geo, failAt)
       IN /\ geoLog' = geoLog \o r.calls
          /\ IF r.raised
             THEN /\ rpc' = "failed"
                  /\ result' = ErrorResult
                  /\ UNCHANGED <<found, yielded>>
             ELSE /\ rpc' = "reconciling"
                  /\ found' = found \o r.out
                  /\ yielded' = Append(yielded, Len(r.out))
                  /\ UNCHANGED result
    /\ broke' = IF failAt <= Len(PopulairesData)
                THEN broke \cup {"populaires"} ELSE broke
    /\ invoked' = Append(invoked, "populaires")
    /\ UNCHANGED <<store, now, step, pre, histVars, saveRaised, reconciled,
                   trigVars>>
    /\ UNCHANGED <<phoneVars, nameVars>>

\* saved_count = self.save_pharmacies_to_db(pharmacies), then the summary
\* with success True
SaveFound(fault) ==
    /\ rpc = "reconciling"
    /\ LET r == save_pharmacies_to_db(store, now, found, step, fault)
       IN /\ store' = r.rows
          /\ now' = r.clk + 1
          /\ saveRaised' = r.raised
          /\ result' = SuccessResult(Len(found), r.count)
    /\ pre' = store
    /\ rpc' = "done"
    /\ reconciled' = reconciled + 1
    /\ UNCHANGED <<step, histVars, found, invoked, yielded, broke, geoLog,
                   trigVars>>
    /\ UNCHANGED <<phoneVars, nameVars>>

NextRun ==
    \/ StartRun
    \/ \E geo \in GeoFor(GardeData), failAt \in FailPoints(GardeData) :
          ScrapeGarde(geo, failAt)
    \/ \E geo \in GeoFor(AnnuaireData), failAt \in FailPoints(AnnuaireData) :
          ScrapeAnnuaire(geo, failAt)
    \/ \E geo \in GeoFor(PopulairesData),
          failAt \in FailPoints(PopulairesData) :
          GetPopulaires(geo, failAt)
    \/ \E fault \in BOOLEAN : SaveFound(fault)

SpecRun == Init /\ [][NextRun]_vars

\* --------------------------------------------------- POST /api/scrape
\* return jsonify({... 'error': error ...}), status
Answer(r, status, error) ==
    /\ tstatus' = [tstatus EXCEPT ![r] = status]
    /\ terror' = [terror EXCEPT ![r] = error]
    /\ tpc' = [tpc EXCEPT ![r] = "responded"]

\* if hasattr(app, 'scraping_in_progress') and app.scraping_in_progress:
\* the 409, else on to the body of the request
CheckInProgress(r) ==
    /\ tpc[r] = "new"
    /\ IF flag
       THEN Answer(r, 409, DejaEnCours)
       ELSE /\ tpc' = [tpc EXCEPT ![r] = "entered"]
            /\ UNCHANGED <<tstatus, terror>>
    /\ UNCHANGED <<store, now, step, pre, histVars, runVars, flag, tforce>>
    /\ UNCHANGED <<phoneVars, nameVars>>

\* A handler that marks the scraping as in progress before it counts the
\* rows, and answers the 409 with the mark left set.
CheckExistingMarksFirst(r, force, dbError) ==
    /\ tpc[r] = "entered"
    /\ tforce' = [tforce EXCEPT ![r] = force]
    /\ IF dbError
       THEN flag' = FALSE /\ Answer(r, 500, StrOfException)
       ELSE IF Len(store) > 0 /\ ~force
       THEN flag' = TRUE /\ Answer(r, 409, DonneesExistantes)
       ELSE /\ flag' = TRUE
            /\ tpc' = [tpc EXCEPT ![r] = "running"]
            /\ UNCHANGED <<tstatus, terror>>
    /\ UNCHANGED <<store, now, step, pre, histVars, runVars>>
    /\ UNCHANGED <<phoneVars, nameVars>>

\* force = data.get('force', False); existing_count = Pharmacie.query
\* .count(): the 409 for rows without force, else scraping_in_progress =
\* True; a count that raises goes to the except, which clears the flag
\* and answers 500.
CheckExisting(r, force, dbError) ==
    /\ tpc[r] = "entered"
    /\ tforce' = [tforce EXCEPT ![r] = force]
    /\ IF dbError
       THEN flag' = FALSE /\ Answer(r, 500, StrOfException)
       ELSE IF Len(store) > 0 /\ ~force
       THEN Answer(r, 409, DonneesExistantes) /\ UNCHANGED flag
       ELSE /\ flag' = TRUE
            /\ tpc' = [tpc EXCEPT ![r] = "running"]
            /\ UNCHANGED <<tstatus, terror>>
    /\ UNCHANGED <<store, now, step, pre, histVars, runVars>>
    /\ UNCHANGED <<phoneVars, nameVars>>

\* where an exception is raised in the try around run_full_scraping: not at
\* all, before the call (logger.info) or after it (jsonify)
Crashes == {"none", "before", "after"}

\* A handler without the finally, whose except does not clear the flag
\* either: only the normal return does.
RunScrapingKeepsFlag(r, env, crash) ==
    /\ tpc[r] = "running"
    /\ IF crash = "before"
       THEN UNCHANGED <<store, now, pre, result, saveRaised, geoLog,
                        reconciled, invoked>>
       ELSE /\ LET x == run_full_scraping(store, now, step, env)
               IN /\ store' = x.rows
                  /\ now' = x.clk + 1
                  /\ result' = x.result
                  /\ saveRaised' = x.saveRaised
                  /\ geoLog' = geoLog \o x.calls
                  /\ reconciled' = reconciled + x.saves
            /\ invoked' = invoked \o Providers
            /\ pre' = store
    /\ flag' = (IF crash = "none" THEN FALSE ELSE flag)
    /\ IF crash = "none"
       THEN Answer(r, 200, NoError)
       ELSE Answer(r, 500, StrOfException)
    /\ UNCHANGED <<step, histVars, rpc, found, yielded, broke, tforce>>
    /\ UNCHANGED <<phoneVars, nameVars>>

\* result = scraper.run_full_scraping() and the 200, or an exception and
\* the 500 of the except; either way finally: scraping_in_progress = False
RunScraping(r, env, crash) ==
    /\ tpc[r] = "running"
    /\ IF crash = "before"
       THEN UNCHANGED <<store, now, pre, result, saveRaised, geoLog,
                        reconciled, invoked>>
       ELSE /\ LET x == run_full_scraping(store, now, step, env)
               IN /\ store' = x.rows
                  /\ now' = x.clk + 1
                  /\ result' = x.result
                  /\ saveRaised' = x.saveRaised
                  /\ geoLog' = geoLog \o x.calls
                  /\ reconciled' = reconciled + x.saves
            /\ invoked' = invoked \o Providers
            /\ pre' = store
    /\ flag' = FALSE
    /\ IF crash = "none"
       THEN Answer(r, 200, NoError)
       ELSE Answer(r, 500, StrOfException)
    /\ UNCHANGED <<step, histVars, rpc, found, yielded, broke, tforce>>
    /\ UNCHANGED <<phoneVars, nameVars>>

NextTrigger ==
    \/ \E r \in Requests : CheckInProgress(r)
    \/ \E r \in Requests, force \in BOOLEAN, dbError \in BOOLEAN :
          CheckExisting(r, force, dbError)
    \/ \E r \in Requests, env \in RunEnvs, crash \in Crashes :
          RunScraping(r, env, crash)

SpecTrigger == Init /\ [][NextTrigger]_vars

\* ------------------------------------------------------ _extract_phone
\* a text is handed to _extract_phone
InitPhone ==
    /\ InitProgram
    /\ offered = {}
    /\ accepted = {}
    /\ text \in Texts
    /\ extracted = FALSE
    /\ phone = NoPhone

\* phone = self._extract_phone(text)
ExtractPhone ==
    /\ ~extracted
    /\ phone' = _extract_phone(text)
    /\ extracted' = TRUE
    /\ UNCHANGED <<store, now, step, pre, histVars, runVars, trigVars, text,
                   nameVars>>

NextPhone == ExtractPhone

SpecPhone == InitPhone /\ [][NextPhone]_vars

\* ------------------------------------------------------------- claims
Saved == lastOp = "save"
Positions == 1..Len(lastBatch)

\* the candidate at position j is the only one of its name in the batch
OnlyOfItsName(j) ==
    \A h \in Positions : h # j => lastBatch[h].nom # lastBatch[j].nom

\* row e holds data merged over row old: the keys of data, else old's value
MergedOver(e, old, data) ==
    \A k \in MergeKeys :
        e[k] = IF Has(data, k) THEN data[k] ELSE old[k]

\* C1: a save_pharmacies_to_db that raises, in the loop or at the commit,
\* leaves the committed rows exactly as they were before it (as many rows,
\* every column of every row) and returns 0.
C1_AllOrNothing ==
    (Saved /\ lastErr) => (store = pre /\ lastRet = 0)

\* C1 witness: a save over a non-empty table raised after an earlier
\* candidate of the batch had been processed.
C1_Witness ==
    /\ Saved /\ lastErr /\ Len(lastBatch) >= 2
    /\ pre # <<>> /\ store = pre /\ lastRet = 0

\* C2: when a candidate's name is that of a stored row (and no other
\* candidate of the batch has that name), after a save that raised nothing
\* each of adresse, latitude, longitude, telephone, email, horaires holds the
\* candidate's value if the candidate has the key and the row's former value
\* if not; and the same for the row a PUT by id updates with its body.
C2_PartialMerge ==
    /\ (Saved /\ ~lastErr) =>
          \A j \in Positions :
             LET i == FirstByNom(pre, lastBatch[j].nom)
             IN (i # 0 /\ OnlyOfItsName(j)) =>
                   MergedOver(store[i], pre[i], lastBatch[j])
    /\ (lastOp = "update" /\ ~lastErr /\ ById(pre, lastId) # 0) =>
          MergedOver(store[ById(pre, lastId)], pre[ById(pre, lastId)],
                     lastData)

\* C2 witness: a candidate that carries a telephone and no adresse was
\* merged into a stored row, which changed.
C2_Witness ==
    /\ Saved /\ ~lastErr /\ lastBatch = <<cPhone>>
    /\ FirstByNom(pre, "A") # 0
    /\ pre[FirstByNom(pre, "A")].telephone # "1"
    /\ store[FirstByNom(pre, "A")].telephone = "1"
    /\ store[FirstByNom(pre, "A")].adresse = pre[FirstByNom(pre, "A")].adresse

RowsNamed(rows, nom) == {i \in 1..Len(rows) : rows[i].nom = nom}

\* C3 as stated: after the batch {nom A, telephone 1}, {nom A, adresse X},
\* whatever the table held, there is exactly one row named A, with
\* telephone 1 and adresse X (the storage not failing at the commit).
C3_AsStated ==
    (Saved /\ lastBatch = <<cPhone, cAddr>> /\ ~lastFault) =>
        /\ Cardinality(RowsNamed(store, "A")) = 1
        /\ \A i \in RowsNamed(store, "A") :
              store[i].telephone = "1" /\ store[i].adresse = "X"

\* C3 amended: after that batch, over a table that holds a row named A, the
\* first row named A has telephone 1 and adresse X, the second candidate
\* having been merged into the row as the first left it, and no row named A
\* was added; over a table with no row named A the first candidate's row
\* has no adresse, the flush before the second lookup raises, and the table
\* is left as it was.
C3_Sequential ==
    (Saved /\ lastBatch = <<cPhone, cAddr>> /\ ~lastFault) =>
        LET i == FirstByNom(pre, "A")
        IN IF i # 0
           THEN /\ ~lastErr
                /\ store[i].nom = "A"
                /\ store[i].telephone = "1"
                /\ store[i].adresse = "X"
                /\ RowsNamed(store, "A") = RowsNamed(pre, "A")
           ELSE lastErr /\ store = pre /\ lastRet = 0

\* C3 witness: the batch was merged into a row named A whose telephone and
\* adresse were both different before.
C3_Witness ==
    /\ Saved /\ lastBatch = <<cPhone, cAddr>> /\ ~lastErr
    /\ FirstByNom(pre, "A") # 0
    /\ pre[FirstByNom(pre, "A")].telephone # "1"
    /\ pre[FirstByNom(pre, "A")].adresse # "X"
    /\ store[FirstByNom(pre, "A")].telephone = "1"
    /\ store[FirstByNom(pre, "A")].adresse = "X"

\* a candidate with the two required fields
WellFormed(data) == Get(data, "nom") # NoneVal /\ Get(data, "adresse") # NoneVal

\* the last save was of well-formed candidates of distinct names into the
\* empty table, the storage not failing
FreshBatch ==
    /\ Saved /\ pre = <<>> /\ ~lastFault
    /\ \A j \in Positions : WellFormed(lastBatch[j]) /\ OnlyOfItsName(j)

\* one row per candidate, in order, holding its fields, None for a key the
\* candidate has not
OneRowEach ==
    /\ Len(store) = Len(lastBatch)
    /\ \A j \in Positions :
          /\ \A k \in Keys : store[j][k] = Get(lastBatch[j], k)
          /\ store[j].date_creation # Unset
          /\ store[j].date_maj # Unset

\* C4 as stated: a batch without name collisions saved into the empty table
\* gives one row per candidate with its fields, date_creation and date_maj
\* both set and equal.
C4_AsStated ==
    FreshBatch =>
        /\ OneRowEach
        /\ \A j \in 1..Len(store) : store[j].date_creation = store[j].date_maj

\* C4 amended: such a batch gives one row per candidate with its fields,
\* date_creation and date_maj both set, and date_creation no later than
\* date_maj: the two column defaults read the clock one after the other.
C4_CreateEach ==
    FreshBatch =>
        /\ OneRowEach
        /\ \A j \in 1..Len(store) : store[j].date_creation <= store[j].date_maj

\* C4 witness: two candidates of different names became two rows.
C4_Witness ==
    FreshBatch /\ Len(lastBatch) = 2 /\ Len(store) = 2 /\ store[2].id = 2

\* C5: when the batch just saved is the batch of the save right before it
\* (whose commit the storage did not fail), the table has as many rows as
\* after the first save, and for every candidate the row of its name is the
\* same row, holding in each field the candidate carries the value it held
\* after the first save.
C5_Idempotent ==
    (Saved /\ rep) =>
        /\ Len(store) = Len(pre)
        /\ \A j \in Positions :
              Has(lastBatch[j], "nom") =>
                 LET i == FirstByNom(pre, lastBatch[j].nom)
                 IN /\ FirstByNom(store, lastBatch[j].nom) = i
                    /\ i # 0 =>
                          \A k \in Keys :
                             Has(lastBatch[j], k) => store[i][k] = pre[i][k]

\* C5 witness: the second save of a batch that repeats a name committed,
\* over the rows the first save had created.
C5_Witness ==
    /\ Saved /\ rep /\ ~lastErr /\ lastRet = 2
    /\ lastBatch = <<cAddr, cPhone>>
    /\ Len(pre) = 1 /\ pre[1].date_maj < store[1].date_maj

\* C6: after a save that raised nothing, every stored row whose name a
\* candidate carries has a date_maj later than before the save and the
\* date_creation it had.
C6_UpdatedAt ==
    (Saved /\ ~lastErr) =>
        \A j \in Positions :
           LET i == FirstByNom(pre, lastBatch[j].nom)
           IN i # 0 =>
                 /\ store[i].date_maj > pre[i].date_maj
                 /\ store[i].date_creation = pre[i].date_creation

\* C6 witness: a stored row was updated by a save on a clock that did not
\* advance between the reads of that save.
C6_Witness ==
    /\ Saved /\ ~lastErr /\ step = 0 /\ lastBatch # <<>>
    /\ FirstByNom(pre, lastBatch[1].nom) # 0

\* C7: at no time are two runs in flight (two requests between setting
\* scraping_in_progress and clearing it).
C7_SingleFlight ==
    Cardinality({r \in Requests : tpc[r] = "running"}) <= 1

\* C8: a run whose save raised and was rolled back returns the error
\* summary, success False.
C8_FailedRun ==
    (rpc = "done" /\ saveRaised) =>
        (result.kind = "error" /\ ~result.success)

\* C9: a save that raised nothing returns the number of candidates of the
\* batch, created, updated and repeated names alike; the save of the empty
\* batch raises nothing, returns 0 and leaves the table as it was.
C9_Count ==
    /\ (Saved /\ ~lastErr) => lastRet = Len(lastBatch)
    /\ (Saved /\ lastBatch = <<>>) =>
          (~lastErr /\ lastRet = 0 /\ store = pre)

\* C9 witness: a batch of one candidate that was created and one that
\* updated the row just created returned 2.
C9_Witness ==
    /\ Saved /\ ~lastErr /\ lastRet = 2
    /\ lastBatch[1].nom = lastBatch[2].nom
    /\ Len(store) = Len(pre) + 1

\* C10: when the run has returned and an exception was raised in one
\* provider, that provider returned no candidate, the three providers were
\* all called, in order, and the run did not fail.
C10_ProviderIsolation ==
    (rpc \in {"done", "failed"} /\ Cardinality(broke) = 1) =>
        /\ invoked = Providers
        /\ \A i \in 1..Len(yielded) : invoked[i] \in broke => yielded[i] = 0
        /\ rpc # "failed"
        /\ result.success

\* the geocoder calls that found no coordinates, by position in the log
Misses == {i \in 1..Len(geoLog) : geoLog[i].outcome # "location"}

AllSampleData == GardeData \o AnnuaireData \o PopulairesData

\* C11: every call of _geocode_address in which the geocoder times out, is
\* unavailable, raises anything else or finds nothing returns None; as long
\* as the run has not failed, the candidate of each call is in the list,
\* without latitude and longitude after a miss; a run in which no provider
\* raised does not fail and collects every candidate; and the rows a
\* committed save created for the missed candidates hold no coordinates.
C11_GeocoderDegrades ==
    /\ \A i \in Misses : geoLog[i].coords = NoCoords
    /\ rpc # "failed" =>
          /\ Len(found) = Len(geoLog)
          /\ \A i \in 1..Len(geoLog) : found[i].adresse = geoLog[i].adresse
          /\ \A i \in Misses :
                found[i].latitude = Absent /\ found[i].longitude = Absent
    /\ (Len(invoked) = Len(Providers) /\ broke = {}) =>
          (rpc # "failed" /\ Len(found) = Len(AllSampleData))
    /\ (rpc = "done" /\ ~saveRaised) =>
          \A i \in Misses :
             /\ store[i].adresse = geoLog[i].adresse
             /\ store[i].latitude = NoneVal /\ store[i].longitude = NoneVal

\* C11 witness: a run in which the geocoder timed out on one address and
\* raised an unexpected exception on another collected every candidate and
\* committed them, the two without coordinates.
C11_Witness ==
    /\ rpc = "done" /\ ~saveRaised /\ broke = {}
    /\ Len(store) = Len(AllSampleData)
    /\ \E i, j \in Misses :
          /\ geoLog[i].outcome = "GeocoderTimedOut"
          /\ geoLog[j].outcome = "Exception"
          /\ store[i].latitude = NoneVal /\ store[j].latitude = NoneVal
    /\ \E i \in 1..Len(store) : store[i].latitude = "5.3"

\* request r leaves the test of existing rows, the table holding rows, the
\* body without force, and the count raising nothing
CountsExisting(r) ==
    /\ tpc[r] = "entered" /\ tpc'[r] # "entered"
    /\ Len(store) > 0 /\ ~tforce'[r] /\ tstatus'[r] # 500

\* C12: a POST /api/scrape that finds rows in the table and has no force
\* is answered 409 in that step, and the step calls no provider, no geocoder
\* and no save_pharmacies_to_db and leaves the table and
\* scraping_in_progress as they were; nor does the test of
\* scraping_in_progress before it change any of them.
C12_RejectBeforeWork ==
    [][\A r \in Requests :
          /\ CountsExisting(r) =>
                /\ tpc'[r] = "responded"
                /\ tstatus'[r] = 409 /\ terror'[r] = DonneesExistantes
                /\ UNCHANGED <<store, flag, invoked, geoLog, reconciled>>
          /\ (tpc[r] = "new" /\ tpc'[r] # "new") =>
                UNCHANGED <<store, flag, invoked, geoLog, reconciled>>]_vars

\* C12 witness: a request without force was answered 409 for the rows an
\* earlier run had stored, and the only work done is that of the earlier
\* run.
C12_Witness ==
    \E r \in Requests :
        /\ tpc[r] = "responded" /\ tstatus[r] = 409
        /\ terror[r] = DonneesExistantes /\ ~tforce[r]
        /\ Len(store) > 0 /\ ~flag
        /\ reconciled = 1 /\ invoked = Providers
        /\ Len(geoLog) = Len(AllSampleData)

\* the steps run_full_scraping takes from one position to the next
RunOrder ==
    {<<"idle", "collecting">>, <<"collecting", "reconciling">>,
     <<"collecting", "failed">>, <<"reconciling", "done">>}

\* the geocoder was called once for each candidate of the list, in the
\* order of the list
GeocodedOnceEach ==
    /\ Len(geoLog) = Len(found)
    /\ \A i \in 1..Len(found) : geoLog[i].adresse = found[i].adresse

CallUsExample == CallUsAt \o Plus225 \o <<" ">> \o Spaced2222 \o Today

\* C14: _extract_phone returns the match of the first of its patterns that
\* matches, without the whitespace inside it; for the text "Call us at
\* +225 27 22 12 34 today" that is "+22527221234"; for a text without a
\* digit it returns None.
C14_ExtractPhone ==
    extracted =>
        /\ text = CallUsExample =>
              phone = <<"+", "2", "2", "5", "2", "7", "2", "2", "1", "2", "3",
                        "4">>
        /\ (\A k \in 1..Len(text) : text[k] \notin Digits) => phone = NoPhone
        /\ \A k \in 1..Len(phone) : phone[k] \notin Whitespace
        /\ \A i \in 1..Len(patterns) :
              (/\ Search(text, patterns[i]) # NoPhone
               /\ \A h \in 1..(i - 1) : Search(text, patterns[h]) = NoPhone)
                 => phone = SelectSeq(Search(text, patterns[i]),
                                      LAMBDA c : c \notin Whitespace)

\* no two rows share a name
UniqueNames(rows) ==
    \A i, j \in 1..Len(rows) : i # j => rows[i].nom # rows[j].nom

StoredNames == {store[i].nom : i \in 1..Len(store)}

\* C15 as stated: after any sequence of reconcile runs from a table
\* without repeated names, no two rows share a name and there are as many
\* rows as distinct names in the batches handed to the runs.
C15_AsStated ==
    /\ UniqueNames(store)
    /\ Len(store) = Cardinality(offered)

\* C15 amended: after any sequence of reconcile runs from a table without
\* repeated names, no two rows share a name and the names of the rows are
\* the distinct names of the batches whose run committed, one row each; a
\* batch whose run raised and was rolled back adds none.
C15_UniqueNames ==
    /\ UniqueNames(store)
    /\ StoredNames = accepted
    /\ Len(store) = Cardinality(accepted)

\* C15 witness: two runs committed, the second over a batch that gives one
\* name twice, and the table holds one row for each of the two names.
C15_Witness ==
    /\ nruns = 2 /\ Saved /\ ~lastErr
    /\ Len(lastBatch) = 2 /\ lastBatch[1].nom = lastBatch[2].nom
    /\ Len(pre) = 1 /\ Len(store) = 2
    /\ accepted = {"A", "B"}

\* C17: after a save_pharmacies_to_db, committed or rolled back, every row
\* the table held before is still in it, at its place, with the id and the
\* nom it had, and the table does not hold fewer rows than before.
C17_NoRemovalNoRekey ==
    Saved =>
        /\ Len(store) >= Len(pre)
        /\ \A i \in 1..Len(pre) :
              store[i].id = pre[i].id /\ store[i].nom = pre[i].nom

\* C17 witness: a committed save changed the row the table held, which
\* kept its id and nom, and added a row after it.
C17_Witness ==
    /\ Saved /\ ~lastErr
    /\ Len(pre) = 1 /\ Len(store) = 2
    /\ store[1] # pre[1]
    /\ store[1].id = pre[1].id /\ store[1].nom = pre[1].nom
    /\ store[2].id # pre[1].id

InFlight == {r \in Requests : tpc[r] = "running"}

\* C16: a POST /api/scrape that has set scraping_in_progress leaves it
\* False when it answers, with the summary or after an exception; so the
\* flag is set only while a run is in flight, and a request that tests the
\* flag while no run is in flight is not answered that a scraping is
\* already in progress.
C16_FlagReleased ==
    /\ [](flag => InFlight # {})
    /\ [][\A r \in Requests :
             /\ (r \in InFlight /\ tpc'[r] = "responded") => ~flag'
             /\ (InFlight = {} /\ tpc[r] = "new" /\ tpc'[r] # "new") =>
                   terror'[r] # DejaEnCours]_vars

\* C16 witness: the only request that ran raised after its run had stored
\* rows, was answered 500, and the flag is clear.
C16_Witness ==
    \E r \in Requests :
        /\ tpc[r] = "responded" /\ tstatus[r] = 500
        /\ \A q \in Requests \ {r} : tpc[q] = "new"
        /\ invoked = Providers /\ Len(store) > 0
        /\ ~flag

====
